---- MODULE Spec2Model ----
(***************************************************************************)
(* A model of the MFSR document pipeline:                                  *)
(*   - create_unique_ids (src/create_unique_ids.py): per-sector sorting    *)
(*     by parsed date, sequential numbering of dated documents, shuffled   *)
(*     numbering of undated ones, formatting of Document_ID;               *)
(*   - scrape_sector_page (src/complete_mfsr_scraper.py): the walk over    *)
(*     the h4/h5/a elements of one sector page, with is_pdf_link,          *)
(*     determine_document_type and extract_date_and_size, and the loop of  *)
(*     main over the five sectors;                                         *)
(*   - main of src/fixed_mfsr_scraper.py: the walk over the one page.      *)
(* Texts are sequences of one-character strings (dates, identifiers) or of *)
(* short tokens (hrefs, link texts), so that parsing, formatting and URL   *)
(* joining are computed, not assumed.                                      *)
(***************************************************************************)
EXTENDS Integers, Sequences, FiniteSets, TLC

VARIABLES
    df,                 \* the caller's DataFrame (a sequence of rows, index 1..n)
    df_with_ids,        \* the working copy / the returned DataFrame
    pc,                 \* position in create_unique_ids: "start", "loop", "returned"
    sector_k,           \* position of the for loop over sector_mapping.items()
    random_state,       \* state of the global generator of module random
    printed,            \* the sectors named in the messages printed so far
    first_result,       \* the DataFrame returned by the first call, once a second is made
    rs_at_call,         \* random_state when the current call started
    sector_name,        \* scrape_sector_page: its sector_name argument
    nodes,              \* scrape_sector_page: soup.find_all(["h4", "h5", "a"])
    elem_i,             \* scrape_sector_page: position of the for loop over nodes
    rows,               \* scrape_sector_page: rows
    seen,               \* scrape_sector_page: seen
    last_project_name,  \* scrape_sector_page: last_project_name
    wpc,                \* position in scrape_sector_page
    fmt_in,             \* a (sector_id, number) pair about to be formatted
    fmt_out,            \* the identifier formatted from fmt_in
    scrape_log,         \* scrape_sector_page: the (sector, message) pairs printed
    first_walk,         \* the outcome of the first walk of a page, once it is walked again
    last_sector,        \* fixed_mfsr_scraper.main: last_sector
    all_rows,           \* complete_mfsr_scraper.main: all_rows
    pages,              \* the elements of the page behind each url of SECTOR_URLS
    main_k,             \* complete_mfsr_scraper.main: position of the loop over SECTOR_URLS
    mpc,                \* position in complete_mfsr_scraper.main
    link_in,            \* the href, text and parent text of one link
    pdf_out,            \* is_pdf_link of link_in
    type_out,           \* determine_document_type of link_in (complete_mfsr_scraper)
    type_out_fixed,     \* determine_document_type of link_in (fixed_mfsr_scraper)
    anchor_in,          \* the texts of one anchor, of its parent and of its siblings
    extract_out         \* extract_date_and_size of anchor_in

ids_vars == <<df, df_with_ids, pc, sector_k, random_state, printed, first_result, rs_at_call>>
walk_vars == <<sector_name, nodes, elem_i, rows, seen, last_project_name, wpc,
               scrape_log, first_walk, last_sector>>
fmt_vars == <<fmt_in, fmt_out>>
main_vars == <<all_rows, pages, main_k, mpc>>
link_vars == <<link_in, pdf_out, type_out, type_out_fixed>>
extract_vars == <<anchor_in, extract_out>>
vars == <<df, df_with_ids, pc, sector_k, random_state, printed, first_result, rs_at_call,
          sector_name, nodes, elem_i, rows, seen, last_project_name, wpc, fmt_in, fmt_out,
          scrape_log, first_walk, last_sector, all_rows, pages, main_k, mpc,
          link_in, pdf_out, type_out, type_out_fixed, anchor_in, extract_out>>

----------------------------------------------------------------------------
(* Bounds of the model *)

MaxRows == 2

RngStates == 2

MaxNodes == 3

MaxSeq == 1200

MaxTextLen == 52

MaxPrev == 13

MaxNext == 7

----------------------------------------------------------------------------
(* Texts *)

Empty == <<>>

NaN == <<"NaN">>

None == <<>>

Range(s) == {s[i] : i \in 1..Len(s)}

DigitChars == <<"0", "1", "2", "3", "4", "5", "6", "7", "8", "9">>

IsDigit(c) == \E d \in 1..10 : DigitChars[d] = c

DigitVal(c) == (CHOOSE d \in 1..10 : DigitChars[d] = c) - 1

AllDigits(s) == \A i \in 1..Len(s) : IsDigit(s[i])

RECURSIVE int(_)
int(s) == IF Len(s) = 0 THEN 0
          ELSE 10 * int(SubSeq(s, 1, Len(s) - 1)) + DigitVal(s[Len(s)])

RECURSIVE str(_)
str(n) == IF n < 10 THEN <<DigitChars[n + 1]>>
          ELSE str(n \div 10) \o <<DigitChars[(n % 10) + 1]>>

RECURSIVE split(_, _)
split(s, sep) ==
    IF \A i \in 1..Len(s) : s[i] # sep THEN <<s>>
    ELSE LET k == CHOOSE i \in 1..Len(s) : s[i] = sep /\ \A j \in 1..(i - 1) : s[j] # sep
         IN <<SubSeq(s, 1, k - 1)>> \o split(SubSeq(s, k + 1, Len(s)), sep)

----------------------------------------------------------------------------
(* parse_date *)

IsLeap(y) == (y % 4 = 0 /\ y % 100 # 0) \/ y % 400 = 0

DaysInMonth(y, m) ==
    IF m = 2 THEN (IF IsLeap(y) THEN 29 ELSE 28)
    ELSE IF m \in {4, 6, 9, 11} THEN 30 ELSE 31

ValueError == [ok |-> FALSE, value |-> None]

(* strptime without the calendar check of the day against the month *)
strptime_no_calendar(date_string) ==
    LET f == split(date_string, ".")
    IN IF Len(f) # 3 THEN ValueError
       ELSE IF ~(Len(f[1]) \in {1, 2} /\ AllDigits(f[1]) /\ int(f[1]) \in 1..31) THEN ValueError
       ELSE IF ~(Len(f[2]) \in {1, 2} /\ AllDigits(f[2]) /\ int(f[2]) \in 1..12) THEN ValueError
       ELSE IF ~(Len(f[3]) = 4 /\ AllDigits(f[3])) THEN ValueError
       ELSE [ok |-> TRUE, value |-> <<int(f[3]), int(f[2]), int(f[1])>>]

strptime(date_string) ==
    LET f == split(date_string, ".")
    IN IF Len(f) # 3 THEN ValueError
       ELSE IF ~(Len(f[1]) \in {1, 2} /\ AllDigits(f[1]) /\ int(f[1]) \in 1..31) THEN ValueError
       ELSE IF ~(Len(f[2]) \in {1, 2} /\ AllDigits(f[2]) /\ int(f[2]) \in 1..12) THEN ValueError
       ELSE IF ~(Len(f[3]) = 4 /\ AllDigits(f[3])) THEN ValueError
       ELSE IF int(f[3]) < 1 THEN ValueError
       ELSE IF int(f[1]) > DaysInMonth(int(f[3]), int(f[2])) THEN ValueError
       ELSE [ok |-> TRUE, value |-> <<int(f[3]), int(f[2]), int(f[1])>>]

pd_isna(x) == x = NaN

parse_date(date_str) ==
    IF pd_isna(date_str) \/ date_str = Empty THEN None
    ELSE LET r == strptime(date_str)
         IN IF r.ok THEN r.value ELSE None

notna(d) == d # None

datetime_lt(a, b) ==
    \/ a[1] < b[1]
    \/ a[1] = b[1] /\ a[2] < b[2]
    \/ a[1] = b[1] /\ a[2] = b[2] /\ a[3] < b[3]

----------------------------------------------------------------------------
(* create_unique_ids *)

sector_items == <<"Doprava", "Informatizacia", "Budovy", "Obrana", "Ostatne">>

sector_mapping == [s \in Range(sector_items) |->
                     CHOOSE k \in 1..Len(sector_items) : sector_items[k] = s]

(* the number cut to its last three digits *)
format_03d_truncated(n) ==
    LET s == str(n % 1000)
    IN IF Len(s) >= 3 THEN s ELSE [k \in 1..(3 - Len(s)) |-> "0"] \o s

format_03d(n) ==
    LET s == str(n)
    IN IF Len(s) >= 3 THEN s ELSE [k \in 1..(3 - Len(s)) |-> "0"] \o s

doc_id_of(sector_id, i) == str(sector_id) \o <<".">> \o format_03d(i)

(* the numbering of the documents without a date started one too low *)
doc_num_of_off_by_one(max_id, i) == max_id + i

doc_num_of(max_id, i) == max_id + i + 1

Index(frame) == [i \in 1..Len(frame) |-> i]

Pos(s, x) == CHOOSE k \in 1..Len(s) : s[k] = x

(* the rows of an unknown sector taken into every sector *)
sector_filter_default(frame, sector) ==
    SelectSeq(Index(frame), LAMBDA i : \/ frame[i].Sector = sector
                                       \/ frame[i].Sector \notin DOMAIN sector_mapping)

sector_filter(frame, sector) ==
    SelectSeq(Index(frame), LAMBDA i : frame[i].Sector = sector)

(* sort_values with ascending=False *)
sort_values_descending(frame, idx) ==
    LET dated == SelectSeq(idx, LAMBDA i : notna(frame[i].Date_parsed))
        nat == SelectSeq(idx, LAMBDA i : ~notna(frame[i].Date_parsed))
    IN {p \o nat : p \in {q \in [1..Len(dated) -> Range(dated)] :
            /\ Range(q) = Range(dated)
            /\ \A a, b \in 1..Len(dated) :
                 a < b => ~datetime_lt(frame[q[a]].Date_parsed, frame[q[b]].Date_parsed)}}

(* DataFrame.sort_values('Date_parsed', na_position='last') with the default
   kind='quicksort': the rows with a date come first in ascending order, rows
   with equal dates in an order the sort does not fix; the rows without a date
   follow in their original order.  The set of the orders it can produce. *)
sort_values(frame, idx) ==
    LET dated == SelectSeq(idx, LAMBDA i : notna(frame[i].Date_parsed))
        nat == SelectSeq(idx, LAMBDA i : ~notna(frame[i].Date_parsed))
    IN {p \o nat : p \in {q \in [1..Len(dated) -> Range(dated)] :
            /\ Range(q) = Range(dated)
            /\ \A a, b \in 1..Len(dated) :
                 a < b => ~datetime_lt(frame[q[b]].Date_parsed, frame[q[a]].Date_parsed)}}

randbelow(rs, n) == rs % n

next_random_state(rs) == (rs + 1) % RngStates

RECURSIVE shuffle_from(_, _, _)
shuffle_from(x, i, rs) ==
    IF i < 1 THEN [x |-> x, rs |-> rs]
    ELSE LET j == randbelow(rs, i + 1)
         IN shuffle_from([x EXCEPT ![i + 1] = x[j + 1], ![j + 1] = x[i + 1]],
                         i - 1, next_random_state(rs))

shuffle(x, rs) == shuffle_from(x, Len(x) - 1, rs)

(* the identifier of every other row emptied when a sector is written *)
assign_dated_clearing_others(frame, sector_id, date_documents) ==
    [idx \in 1..Len(frame) |->
        IF idx \in Range(date_documents)
        THEN [frame[idx] EXCEPT !.Document_ID = doc_id_of(sector_id, Pos(date_documents, idx))]
        ELSE [frame[idx] EXCEPT !.Document_ID = Empty]]

assign_dated(frame, sector_id, date_documents) ==
    [idx \in 1..Len(frame) |->
        IF idx \in Range(date_documents)
        THEN [frame[idx] EXCEPT !.Document_ID = doc_id_of(sector_id, Pos(date_documents, idx))]
        ELSE frame[idx]]

assign_no_date(frame, sector_id, max_id, no_date_indices) ==
    [idx \in 1..Len(frame) |->
        IF idx \in Range(no_date_indices)
        THEN [frame[idx] EXCEPT !.Document_ID =
                 doc_id_of(sector_id, doc_num_of(max_id, Pos(no_date_indices, idx) - 1))]
        ELSE frame[idx]]

(* The body of the for loop for one sector that has rows, given the order
   sort_values produced and the generator state: the frame and the generator
   state after it. *)
process_sector(frame, sector, order, rs) ==
    LET sector_id == sector_mapping[sector]
        date_documents == SelectSeq(order, LAMBDA i : notna(frame[i].Date_parsed))
        no_date_documents == SelectSeq(order, LAMBDA i : ~notna(frame[i].Date_parsed))
        dated_done == assign_dated(frame, sector_id, date_documents)
        sh == shuffle(no_date_documents, rs)
    IN IF Len(no_date_documents) > 0
       THEN [frame |-> assign_no_date(dated_done, sector_id, Len(date_documents), sh.x),
             rs |-> sh.rs]
       ELSE [frame |-> dated_done, rs |-> rs]

with_date_parsed(frame) ==
    [i \in 1..Len(frame) |->
        [Sector |-> frame[i].Sector, Date |-> frame[i].Date,
         Date_parsed |-> parse_date(frame[i].Date)]]

with_empty_ids(frame) ==
    [i \in 1..Len(frame) |->
        [Sector |-> frame[i].Sector, Date |-> frame[i].Date,
         Date_parsed |-> frame[i].Date_parsed, Document_ID |-> Empty]]

drop_date_parsed(frame) ==
    [i \in 1..Len(frame) |->
        [Sector |-> frame[i].Sector, Date |-> frame[i].Date,
         Document_ID |-> frame[i].Document_ID]]

NoResult == [made |-> FALSE, frame |-> <<>>]

(* lines 41-45: the Date_parsed column is added to the caller's frame, which is
   then copied and given an empty Document_ID column *)
Enter ==
    /\ df' = with_date_parsed(df)
    /\ df_with_ids' = with_empty_ids(with_date_parsed(df))
    /\ pc' = "loop"
    /\ sector_k' = 1
    /\ rs_at_call' = random_state
    /\ UNCHANGED <<random_state, printed>>

Call ==
    /\ pc = "start"
    /\ Enter
    /\ UNCHANGED first_result
    /\ UNCHANGED <<walk_vars, fmt_vars, main_vars, link_vars, extract_vars>>

(* the caller runs create_unique_ids once more on the same frame *)
CallAgain ==
    /\ pc = "returned"
    /\ ~first_result.made
    /\ first_result' = [made |-> TRUE, frame |-> df_with_ids]
    /\ Enter
    /\ UNCHANGED <<walk_vars, fmt_vars, main_vars, link_vars, extract_vars>>

(* lines 48-56: a sector of the mapping with no rows *)
SkipSector ==
    /\ pc = "loop"
    /\ sector_k <= Len(sector_items)
    /\ Len(sector_filter(df_with_ids, sector_items[sector_k])) = 0
    /\ printed' = printed \cup {sector_items[sector_k]}
    /\ sector_k' = sector_k + 1
    /\ UNCHANGED <<df, df_with_ids, pc, random_state, first_result, rs_at_call>>
    /\ UNCHANGED <<walk_vars, fmt_vars, main_vars, link_vars, extract_vars>>

(* lines 48-88: a sector of the mapping with rows *)
ProcessSector ==
    /\ pc = "loop"
    /\ sector_k <= Len(sector_items)
    /\ LET sector == sector_items[sector_k]
           sector_df == sector_filter(df_with_ids, sector)
       IN /\ Len(sector_df) # 0
          /\ \E order \in sort_values(df_with_ids, sector_df) :
                LET r == process_sector(df_with_ids, sector, order, random_state)
                IN /\ df_with_ids' = r.frame
                   /\ random_state' = r.rs
          /\ printed' = printed \cup {sector}
    /\ sector_k' = sector_k + 1
    /\ UNCHANGED <<df, pc, first_result, rs_at_call>>
    /\ UNCHANGED <<walk_vars, fmt_vars, main_vars, link_vars, extract_vars>>

(* lines 91-93 *)
Return ==
    /\ pc = "loop"
    /\ sector_k > Len(sector_items)
    /\ df_with_ids' = drop_date_parsed(df_with_ids)
    /\ pc' = "returned"
    /\ UNCHANGED <<df, sector_k, random_state, printed, first_result, rs_at_call>>
    /\ UNCHANGED <<walk_vars, fmt_vars, main_vars, link_vars, extract_vars>>

----------------------------------------------------------------------------
(* scrape_sector_page *)

BASE == <<"h", "t", "t", "p", "s", ":", "/", "/", "w", "w", "w", ".", "m", "f", "s", "r", ".", "s", "k">>

UNKNOWN_PROJECT == <<"U", "N", "K", "N", "O", "W", "N", "_", "P", "R", "O", "J", "E", "C", "T">>

(* the letters of the texts of the pages; a letter with a diacritic is one
   character, written as the letter followed by the sign: a' y' s^ u' c^ l^ i' *)
UpperChars == <<"A", "B", "C", "D", "E", "F", "G", "H", "I", "J", "K", "L", "M",
               "N", "O", "P", "Q", "R", "S", "T", "U", "V", "W", "X", "Y", "Z",
               "A'", "Y'", "S^", "U'", "C^", "L^", "I'">>

LowerChars == <<"a", "b", "c", "d", "e", "f", "g", "h", "i", "j", "k", "l", "m",
               "n", "o", "p", "q", "r", "s", "t", "u", "v", "w", "x", "y", "z",
               "a'", "y'", "s^", "u'", "c^", "l^", "i'">>

(* str.lower() left out *)
lower_identity(s) == s

(* the lower-case letter of every upper-case letter *)
LowerOf ==
    [c \in {UpperChars[k] : k \in 1..Len(UpperChars)} |->
        LowerChars[CHOOSE k \in 1..Len(UpperChars) : UpperChars[k] = c]]

lower(s) == [i \in 1..Len(s) |-> IF s[i] \in DOMAIN LowerOf THEN LowerOf[s[i]] ELSE s[i]]

contains(s, sub) ==
    \E k \in 0..(Len(s) - Len(sub)) : \A j \in 1..Len(sub) : s[k + j] = sub[j]

is_pdf_link(href, link_text) ==
    IF href = None \/ href = Empty THEN FALSE
    ELSE \/ contains(lower(href), <<".", "p", "d", "f">>)
         \/ contains(lower(link_text), <<"p", "d", "f">>)
(* the keywords of determine_document_type *)
kw_hodnotenie == <<"h", "o", "d", "n", "o", "t", "e", "n", "i", "e">>
kw_analyza_acute == <<"a", "n", "a", "l", "y'", "z", "a">>
kw_analyza == <<"a", "n", "a", "l", "y", "z", "a">>
kw_studia_uskutocnitelnosti == <<"s^", "t", "u'", "d", "i", "a", " ", "u", "s", "k", "u", "t", "o", "c^", "n", "i",
      "t", "e", "l^", "n", "o", "s", "t", "i">>
kw_aktualizacia == <<"a", "k", "t", "u", "a", "l", "i", "z", "a'", "c", "i", "a">>
kw_stanovisko == <<"s", "t", "a", "n", "o", "v", "i", "s", "k", "o">>
kw_sprava == <<"s", "p", "r", "a'", "v", "a">>
kw_metodika == <<"m", "e", "t", "o", "d", "i", "k", "a">>
kw_zmluva == <<"z", "m", "l", "u", "v", "a">>
kw_dohoda == <<"d", "o", "h", "o", "d", "a">>
kw_investicny_zamer == <<"i", "n", "v", "e", "s", "t", "i", "c^", "n", "y'", " ", "z", "a'", "m", "e", "r">>
TypeMaxLen == 50

(* the marker written after every link text, also one that is not cut *)
truncated_always(link_text) ==
    SubSeq(link_text, 1, IF Len(link_text) > TypeMaxLen THEN TypeMaxLen ELSE Len(link_text))
        \o <<".", ".", ".">>

(* line 100: link_text[:50] + "..." if len(link_text) > 50 else link_text *)
truncated(link_text) ==
    IF Len(link_text) > TypeMaxLen
    THEN SubSeq(link_text, 1, TypeMaxLen) \o <<".", ".", ".">>
    ELSE link_text

text_to_search(link_text, parent_text) == lower(link_text \o <<" ">> \o parent_text)

(* the tests for zmluva and dohoda in the other order *)
determine_document_type_dohoda_first(link_text, parent_text) ==
    LET t == text_to_search(link_text, parent_text)
    IN IF contains(t, kw_hodnotenie) THEN kw_hodnotenie
       ELSE IF contains(t, kw_analyza_acute) \/ contains(t, kw_analyza) THEN kw_analyza_acute
       ELSE IF contains(t, kw_studia_uskutocnitelnosti) THEN kw_studia_uskutocnitelnosti
       ELSE IF contains(t, kw_aktualizacia) THEN kw_aktualizacia
       ELSE IF contains(t, kw_stanovisko) THEN kw_stanovisko
       ELSE IF contains(t, kw_sprava) THEN kw_sprava
       ELSE IF contains(t, kw_metodika) THEN kw_metodika
       ELSE IF contains(t, kw_dohoda) THEN kw_dohoda
       ELSE IF contains(t, kw_zmluva) THEN kw_zmluva
       ELSE IF contains(t, kw_investicny_zamer) THEN kw_investicny_zamer
       ELSE truncated(link_text)

determine_document_type(link_text, parent_text) ==
    LET t == text_to_search(link_text, parent_text)
    IN IF contains(t, kw_hodnotenie) THEN kw_hodnotenie
       ELSE IF contains(t, kw_analyza_acute) \/ contains(t, kw_analyza) THEN kw_analyza_acute
       ELSE IF contains(t, kw_studia_uskutocnitelnosti) THEN kw_studia_uskutocnitelnosti
       ELSE IF contains(t, kw_aktualizacia) THEN kw_aktualizacia
       ELSE IF contains(t, kw_stanovisko) THEN kw_stanovisko
       ELSE IF contains(t, kw_sprava) THEN kw_sprava
       ELSE IF contains(t, kw_metodika) THEN kw_metodika
       ELSE IF contains(t, kw_zmluva) THEN kw_zmluva
       ELSE IF contains(t, kw_dohoda) THEN kw_dohoda
       ELSE IF contains(t, kw_investicny_zamer) THEN kw_investicny_zamer
       ELSE truncated(link_text)

(* fixed_mfsr_scraper.determine_document_type *)
determine_document_type_fixed(link_text, parent_text) ==
    LET t == text_to_search(link_text, parent_text)
    IN IF contains(t, kw_hodnotenie) THEN kw_hodnotenie
       ELSE IF contains(t, kw_analyza_acute) \/ contains(t, kw_analyza) THEN kw_analyza_acute
       ELSE IF contains(t, kw_studia_uskutocnitelnosti) THEN kw_studia_uskutocnitelnosti
       ELSE IF contains(t, kw_aktualizacia) THEN kw_aktualizacia
       ELSE IF contains(t, kw_stanovisko) THEN kw_stanovisko
       ELSE IF contains(t, kw_sprava) THEN kw_sprava
       ELSE IF contains(t, kw_metodika) THEN kw_metodika
       ELSE IF contains(t, kw_zmluva) THEN kw_zmluva
       ELSE IF contains(t, kw_dohoda) THEN kw_dohoda
       ELSE truncated(link_text)

(* extract_date_and_size *)

(* \w of a str pattern: letters, digits and the underscore *)
is_word_char(c) ==
    IsDigit(c) \/ c = "_" \/ c \in Range(UpperChars) \/ c \in Range(LowerChars)

(* \b before position k of s, k in 1..Len(s)+1 *)
word_boundary(s, k) ==
    (k > 1 /\ is_word_char(s[k - 1])) # (k <= Len(s) /\ is_word_char(s[k]))

(* the characters k..k+n-1 of s are there and are digits *)
digits_at(s, k, n) == k + n - 1 <= Len(s) /\ \A j \in k..(k + n - 1) : IsDigit(s[j])

char_at(s, k, c) == k <= Len(s) /\ s[k] = c

(* the length of the longest run of characters of cs that starts at k *)
run_at(s, k, cs) ==
    CHOOSE n \in 0..(Len(s) + 1 - k) :
        /\ \A j \in k..(k + n - 1) : s[j] \in cs
        /\ (k + n <= Len(s) => s[k + n] \notin cs)

(* date_re = \b\d{1,2}\.\d{1,2}\.\d{4}\b matched at position k: the position
   after the match, 0 where there is none; the two greedy {1,2} are tried
   with two digits first *)
date_re_match(s, k) ==
    LET end(a, b) == k + a + b + 6
        ok(a, b) == /\ digits_at(s, k, a)
                    /\ char_at(s, k + a, ".")
                    /\ digits_at(s, k + a + 1, b)
                    /\ char_at(s, k + a + b + 1, ".")
                    /\ digits_at(s, k + a + b + 2, 4)
                    /\ word_boundary(s, end(a, b))
    IN IF ~word_boundary(s, k) THEN 0
       ELSE IF ok(2, 2) THEN end(2, 2)
       ELSE IF ok(2, 1) THEN end(2, 1)
       ELSE IF ok(1, 2) THEN end(1, 2)
       ELSE IF ok(1, 1) THEN end(1, 1)
       ELSE 0

(* the alternatives of the unit of size_re, in the order of the pattern *)
size_units == <<<<"k", "B">>, <<"K", "B">>, <<"M", "B">>, <<"G", "B">>, <<"B">>,
                <<"k", "b">>, <<"m", "b">>, <<"g", "b">>>>

(* size_re = \b\d+(?:[.,]\d+)?\s*(?:kB|KB|MB|GB|B|kb|mb|gb)\b matched at
   position k: the position after the match, 0 where there is none.  \d+ and
   \s* take their longest run (after a shorter one the next character is a
   digit or a space, where nothing of the pattern goes on); the optional group
   is tried first taken, then left out *)
size_re_match(s, k) ==
    LET n1 == run_at(s, k, Range(DigitChars))
        p == k + n1
        n2 == IF p <= Len(s) /\ s[p] \in {".", ","}
              THEN run_at(s, p + 1, Range(DigitChars)) ELSE 0
        unit_end(q) ==
            LET fits == {u \in 1..Len(size_units) :
                           /\ q + Len(size_units[u]) - 1 <= Len(s)
                           /\ \A j \in 1..Len(size_units[u]) : s[q + j - 1] = size_units[u][j]
                           /\ word_boundary(s, q + Len(size_units[u]))}
            IN IF fits = {} THEN 0
               ELSE q + Len(size_units[CHOOSE u \in fits : \A v \in fits : u <= v])
        after(q) == unit_end(q + run_at(s, q, {" "}))
        taken == IF n2 > 0 THEN after(p + 1 + n2) ELSE 0
    IN IF ~word_boundary(s, k) \/ n1 = 0 THEN 0
       ELSE IF taken > 0 THEN taken
       ELSE after(p)

NoMatch == [found |-> FALSE, text |-> <<>>]

(* pattern.search: the match at the first position that has one *)
RECURSIVE date_re_search_from(_, _)
date_re_search_from(s, k) ==
    IF k > Len(s) THEN NoMatch
    ELSE LET end == date_re_match(s, k)
         IN IF end > 0 THEN [found |-> TRUE, text |-> SubSeq(s, k, end - 1)]
            ELSE date_re_search_from(s, k + 1)

date_re_search(s) == date_re_search_from(s, 1)

RECURSIVE size_re_search_from(_, _)
size_re_search_from(s, k) ==
    IF k > Len(s) THEN NoMatch
    ELSE LET end == size_re_match(s, k)
         IN IF end > 0 THEN [found |-> TRUE, text |-> SubSeq(s, k, end - 1)]
            ELSE size_re_search_from(s, k + 1)

size_re_search(s) == size_re_search_from(s, 1)

(* " ".join *)
RECURSIVE join(_)
join(texts) ==
    IF Len(texts) = 0 THEN <<>>
    ELSE IF Len(texts) = 1 THEN texts[1]
    ELSE texts[1] \o <<" ">> \o join(Tail(texts))

PrevWindow == 12

NextWindow == 6

(* x[:n] *)
first_n(x, n) == SubSeq(x, 1, IF Len(x) < n THEN Len(x) ELSE n)

(* lines 32-57: the texts of the anchor, of its parent, of its first 12
   previous siblings (the nearest first, as previous_siblings yields them) and
   of its first 6 next siblings; line 59 joins those that are not empty *)
combined_text(anchor) ==
    LET search_texts == <<anchor.text, anchor.parent>>
                            \o first_n(anchor.prev, PrevWindow)
                            \o first_n(anchor.next, NextWindow)
    IN join(SelectSeq(search_texts, LAMBDA t : t # Empty))

(* the size searched only in what follows the date, where a date is found *)
extract_date_and_size_size_after_date(anchor) ==
    LET combined == combined_text(anchor)
        date_match == date_re_search(combined)
        starts == {k \in 1..Len(combined) : date_re_match(combined, k) > 0}
        from == CHOOSE k \in starts : \A m \in starts : k <= m
    IN [date |-> date_match,
        size |-> IF date_match.found
                 THEN size_re_search(SubSeq(combined, date_re_match(combined, from), Len(combined)))
                 ELSE size_re_search(combined)]

(* lines 59-62 *)
extract_date_and_size(anchor) ==
    LET combined == combined_text(anchor)
    IN [date |-> date_re_search(combined), size |-> size_re_search(combined)]

(* line 139: date or "", size or "" *)
or_empty(match) == IF match.found /\ match.text # Empty THEN match.text ELSE Empty

has_scheme(url) ==
    \E k \in 2..Len(url) : url[k] = ":" /\ \A j \in 1..(k - 1) : url[j] \notin {"/", "?", "#", "."}

(* urllib.parse.urlsplit raises ValueError("Invalid IPv6 URL") for a url
   without scheme whose network location, the text between a leading "//" and
   the next "/", has a "[" and no "]" *)
urljoin_raises(url) ==
    /\ Len(url) >= 2
    /\ url[1] = "/" /\ url[2] = "/"
    /\ LET rest == SubSeq(url, 3, Len(url))
           stops == {k \in 1..Len(rest) : rest[k] = "/"}
           last == IF stops = {} THEN Len(rest)
                   ELSE (CHOOSE k \in stops : \A m \in stops : k <= m) - 1
           netloc == SubSeq(rest, 1, last)
       IN "[" \in Range(netloc) /\ "]" \notin Range(netloc)

(* urllib.parse.urljoin for a base without a path, and urls without network
   location of their own, query, fragment or dot segments *)
urljoin(base, url) ==
    IF has_scheme(url) THEN url
    ELSE IF url[1] = "/" THEN base \o url
    ELSE base \o <<"/">> \o url

(* the membership test of line 138 left out *)
not_seen_always(key, seen_keys) == TRUE

not_seen(key, seen_keys) == key \notin seen_keys

(* the new record put before the others *)
rows_prepend(the_rows, row) == <<row>> \o the_rows

(* line 139: rows.append *)
rows_append(the_rows, row) == Append(the_rows, row)

(* lines 106-110 and 145-147: the request raises, or answers with another
   status than 200; either way a message is printed and [] returned *)
FetchFails ==
    /\ wpc = "fetch"
    /\ \E message \in {"non200", "error"} :
          scrape_log' = scrape_log \cup {<<sector_name, message>>}
    /\ rows' = <<>>
    /\ wpc' = "failed"
    /\ UNCHANGED <<sector_name, nodes, elem_i, seen, last_project_name, first_walk, last_sector>>
    /\ UNCHANGED <<ids_vars, fmt_vars, main_vars, link_vars, extract_vars>>

(* lines 107-117, the set of line 116 kept from the call before *)
FetchOk_keeps_seen ==
    /\ wpc = "fetch"
    /\ rows' = <<>>
    /\ last_project_name' = UNKNOWN_PROJECT
    /\ elem_i' = 1
    /\ wpc' = "loop"
    /\ UNCHANGED <<sector_name, nodes, seen, scrape_log, first_walk, last_sector>>
    /\ UNCHANGED <<ids_vars, fmt_vars, main_vars, link_vars, extract_vars>>

(* lines 107-117, the project name of line 117 kept from the call before *)
FetchOk_keeps_project ==
    /\ wpc = "fetch"
    /\ rows' = <<>>
    /\ seen' = {}
    /\ elem_i' = 1
    /\ wpc' = "loop"
    /\ UNCHANGED <<sector_name, nodes, last_project_name, scrape_log, first_walk, last_sector>>
    /\ UNCHANGED <<ids_vars, fmt_vars, main_vars, link_vars, extract_vars>>

(* lines 107-117 *)
FetchOk ==
    /\ wpc = "fetch"
    /\ rows' = <<>>
    /\ seen' = {}
    /\ last_project_name' = UNKNOWN_PROJECT
    /\ elem_i' = 1
    /\ wpc' = "loop"
    /\ UNCHANGED <<sector_name, nodes, scrape_log, first_walk, last_sector>>
    /\ UNCHANGED <<ids_vars, fmt_vars, main_vars, link_vars, extract_vars>>

(* lines 121-123 *)
VisitH4 ==
    /\ wpc = "loop"
    /\ elem_i <= Len(nodes)
    /\ nodes[elem_i].name = "h4"
    /\ elem_i' = elem_i + 1
    /\ UNCHANGED <<sector_name, nodes, rows, seen, last_project_name, wpc,
                   scrape_log, first_walk, last_sector>>
    /\ UNCHANGED <<ids_vars, fmt_vars, main_vars, link_vars, extract_vars>>

(* lines 124-125, the name set by the first h5 of the page only *)
VisitH5_first_only ==
    /\ wpc = "loop"
    /\ elem_i <= Len(nodes)
    /\ nodes[elem_i].name = "h5"
    /\ last_project_name' = IF last_project_name = UNKNOWN_PROJECT
                            THEN nodes[elem_i].text ELSE last_project_name
    /\ elem_i' = elem_i + 1
    /\ UNCHANGED <<sector_name, nodes, rows, seen, wpc, scrape_log, first_walk, last_sector>>
    /\ UNCHANGED <<ids_vars, fmt_vars, main_vars, link_vars, extract_vars>>

(* lines 124-125 *)
VisitH5 ==
    /\ wpc = "loop"
    /\ elem_i <= Len(nodes)
    /\ nodes[elem_i].name = "h5"
    /\ last_project_name' = nodes[elem_i].text
    /\ elem_i' = elem_i + 1
    /\ UNCHANGED <<sector_name, nodes, rows, seen, wpc, scrape_log, first_walk, last_sector>>
    /\ UNCHANGED <<ids_vars, fmt_vars, main_vars, link_vars, extract_vars>>

(* lines 126-140 *)
VisitPdfLink ==
    /\ wpc = "loop"
    /\ elem_i <= Len(nodes)
    /\ nodes[elem_i].name = "a"
    /\ is_pdf_link(nodes[elem_i].href, nodes[elem_i].text)
    /\ ~urljoin_raises(nodes[elem_i].href)
    /\ LET link_text == nodes[elem_i].text
           dtype == determine_document_type(link_text, nodes[elem_i].parent)
           url == urljoin(BASE, nodes[elem_i].href)
           found == extract_date_and_size(nodes[elem_i])
           key == <<sector_name, last_project_name, url>>
       IN IF not_seen(key, seen)
          THEN /\ rows' = rows_append(rows, [Sector |-> sector_name,
                                             Project |-> last_project_name,
                                             Type |-> dtype, URL |-> url,
                                             Date |-> or_empty(found.date),
                                             File_Size |-> or_empty(found.size)])
               /\ seen' = seen \cup {key}
          ELSE UNCHANGED <<rows, seen>>
    /\ elem_i' = elem_i + 1
    /\ UNCHANGED <<sector_name, nodes, last_project_name, wpc, scrape_log, first_walk, last_sector>>
    /\ UNCHANGED <<ids_vars, fmt_vars, main_vars, link_vars, extract_vars>>

(* line 126 with the project forgotten at a link that is no document *)
VisitOtherLink_forgets_project ==
    /\ wpc = "loop"
    /\ elem_i <= Len(nodes)
    /\ nodes[elem_i].name = "a"
    /\ ~is_pdf_link(nodes[elem_i].href, nodes[elem_i].text)
    /\ last_project_name' = UNKNOWN_PROJECT
    /\ elem_i' = elem_i + 1
    /\ UNCHANGED <<sector_name, nodes, rows, seen, wpc, scrape_log, first_walk, last_sector>>
    /\ UNCHANGED <<ids_vars, fmt_vars, main_vars, link_vars, extract_vars>>

(* line 126, the condition false: the loop goes on to the next element *)
VisitOtherLink ==
    /\ wpc = "loop"
    /\ elem_i <= Len(nodes)
    /\ nodes[elem_i].name = "a"
    /\ ~is_pdf_link(nodes[elem_i].href, nodes[elem_i].text)
    /\ elem_i' = elem_i + 1
    /\ UNCHANGED <<sector_name, nodes, rows, seen, last_project_name, wpc,
                   scrape_log, first_walk, last_sector>>
    /\ UNCHANGED <<ids_vars, fmt_vars, main_vars, link_vars, extract_vars>>

(* line 133 raises ValueError inside the try of line 106: lines 145-147 print
   the message and return [] *)
VisitRaises ==
    /\ wpc = "loop"
    /\ elem_i <= Len(nodes)
    /\ nodes[elem_i].name = "a"
    /\ is_pdf_link(nodes[elem_i].href, nodes[elem_i].text)
    /\ urljoin_raises(nodes[elem_i].href)
    /\ scrape_log' = scrape_log \cup {<<sector_name, "error">>}
    /\ rows' = <<>>
    /\ wpc' = "failed"
    /\ UNCHANGED <<sector_name, nodes, elem_i, seen, last_project_name, first_walk, last_sector>>
    /\ UNCHANGED <<ids_vars, fmt_vars, main_vars, link_vars, extract_vars>>

(* lines 142-143 *)
WalkReturn ==
    /\ wpc = "loop"
    /\ elem_i > Len(nodes)
    /\ scrape_log' = scrape_log \cup {<<sector_name, "found">>}
    /\ wpc' = "returned"
    /\ UNCHANGED <<sector_name, nodes, elem_i, rows, seen, last_project_name,
                   first_walk, last_sector>>
    /\ UNCHANGED <<ids_vars, fmt_vars, main_vars, link_vars, extract_vars>>

NoWalk == [made |-> FALSE, parsed |-> FALSE, rows |-> <<>>]

(* scrape_sector_page called once more with the same sector and the same page;
   the names of the function are unbound until lines 115-117 bind them *)
WalkAgain ==
    /\ mpc = "idle"
    /\ wpc \in {"returned", "failed"}
    /\ ~first_walk.made
    /\ first_walk' = [made |-> TRUE, parsed |-> elem_i >= 1, rows |-> rows]
    /\ elem_i' = 0
    /\ wpc' = "fetch"
    /\ UNCHANGED <<sector_name, nodes, rows, seen, last_project_name, scrape_log, last_sector>>
    /\ UNCHANGED <<ids_vars, fmt_vars, main_vars, link_vars, extract_vars>>

----------------------------------------------------------------------------
(* complete_mfsr_scraper.main *)

(* the keys of SECTOR_URLS, in the order of the dictionary *)
SECTOR_URLS == <<"Obrana", "Budovy", "Doprava", "Informatizacia", "Ostatne">>

(* all_rows replaced by the rows of the last sector *)
extend_replacing(the_rows, sector_rows) == sector_rows

(* line 166: all_rows.extend *)
extend(the_rows, sector_rows) == the_rows \o sector_rows

(* lines 164-165: the call of scrape_sector_page for the next sector *)
MainCall ==
    /\ mpc = "call"
    /\ main_k <= Len(SECTOR_URLS)
    /\ sector_name' = SECTOR_URLS[main_k]
    /\ nodes' = pages[SECTOR_URLS[main_k]]
    /\ elem_i' = 0
    /\ wpc' = "fetch"
    /\ mpc' = "scraping"
    /\ UNCHANGED <<rows, seen, last_project_name, scrape_log, first_walk, last_sector>>
    /\ UNCHANGED <<all_rows, pages, main_k>>
    /\ UNCHANGED <<ids_vars, fmt_vars, link_vars, extract_vars>>

(* lines 165-169 *)
MainExtend ==
    /\ mpc = "scraping"
    /\ wpc \in {"returned", "failed"}
    /\ all_rows' = extend(all_rows, rows)
    /\ main_k' = main_k + 1
    /\ mpc' = "call"
    /\ UNCHANGED pages
    /\ UNCHANGED <<walk_vars, ids_vars, fmt_vars, link_vars, extract_vars>>

(* lines 171-176: the loop is over and the frame is made of all_rows *)
MainDone ==
    /\ mpc = "call"
    /\ main_k > Len(SECTOR_URLS)
    /\ mpc' = "done"
    /\ UNCHANGED <<all_rows, pages, main_k>>
    /\ UNCHANGED <<walk_vars, ids_vars, fmt_vars, link_vars, extract_vars>>

----------------------------------------------------------------------------
(* fixed_mfsr_scraper.main; the file as given has a stray quote in line 126,
   the loop is modelled as it reads without it *)

PAGE_SECTOR == <<"O", "s", "t", "a", "t", "n", "e">>

(* lines 100-105 and 157-160: the request raises and the program exits, or
   the status is not 200 and main returns *)
FixedFetchFails ==
    /\ wpc = "fixed_fetch"
    /\ wpc' = "fixed_exit"
    /\ UNCHANGED <<sector_name, nodes, elem_i, rows, seen, last_project_name,
                   scrape_log, first_walk, last_sector>>
    /\ UNCHANGED <<ids_vars, fmt_vars, main_vars, link_vars, extract_vars>>

(* lines 100-119 *)
FixedFetchOk ==
    /\ wpc = "fixed_fetch"
    /\ rows' = <<>>
    /\ seen' = {}
    /\ last_sector' = PAGE_SECTOR
    /\ last_project_name' = UNKNOWN_PROJECT
    /\ elem_i' = 1
    /\ wpc' = "fixed_loop"
    /\ UNCHANGED <<sector_name, nodes, scrape_log, first_walk>>
    /\ UNCHANGED <<ids_vars, fmt_vars, main_vars, link_vars, extract_vars>>

(* lines 123-124 *)
FixedVisitH4 ==
    /\ wpc = "fixed_loop"
    /\ elem_i <= Len(nodes)
    /\ nodes[elem_i].name = "h4"
    /\ last_sector' = nodes[elem_i].text
    /\ elem_i' = elem_i + 1
    /\ UNCHANGED <<sector_name, nodes, rows, seen, last_project_name, wpc, scrape_log, first_walk>>
    /\ UNCHANGED <<ids_vars, fmt_vars, main_vars, link_vars, extract_vars>>

(* lines 125-126 *)
FixedVisitH5 ==
    /\ wpc = "fixed_loop"
    /\ elem_i <= Len(nodes)
    /\ nodes[elem_i].name = "h5"
    /\ last_project_name' = nodes[elem_i].text
    /\ elem_i' = elem_i + 1
    /\ UNCHANGED <<sector_name, nodes, rows, seen, wpc, scrape_log, first_walk, last_sector>>
    /\ UNCHANGED <<ids_vars, fmt_vars, main_vars, link_vars, extract_vars>>

(* lines 127-141 *)
FixedVisitPdfLink ==
    /\ wpc = "fixed_loop"
    /\ elem_i <= Len(nodes)
    /\ nodes[elem_i].name = "a"
    /\ is_pdf_link(nodes[elem_i].href, nodes[elem_i].text)
    /\ ~urljoin_raises(nodes[elem_i].href)
    /\ LET link_text == nodes[elem_i].text
           dtype == determine_document_type_fixed(link_text, nodes[elem_i].parent)
           url == urljoin(BASE, nodes[elem_i].href)
           found == extract_date_and_size(nodes[elem_i])
           key == <<last_sector, last_project_name, url>>
       IN IF key \notin seen
          THEN /\ rows' = Append(rows, [Sector |-> last_sector,
                                        Project |-> last_project_name,
                                        Type |-> dtype, URL |-> url,
                                        Date |-> or_empty(found.date),
                                        File_Size |-> or_empty(found.size)])
               /\ seen' = seen \cup {key}
          ELSE UNCHANGED <<rows, seen>>
    /\ elem_i' = elem_i + 1
    /\ UNCHANGED <<sector_name, nodes, last_project_name, wpc, scrape_log, first_walk, last_sector>>
    /\ UNCHANGED <<ids_vars, fmt_vars, main_vars, link_vars, extract_vars>>

(* line 127, the condition false *)
FixedVisitOtherLink ==
    /\ wpc = "fixed_loop"
    /\ elem_i <= Len(nodes)
    /\ nodes[elem_i].name = "a"
    /\ ~is_pdf_link(nodes[elem_i].href, nodes[elem_i].text)
    /\ elem_i' = elem_i + 1
    /\ UNCHANGED <<sector_name, nodes, rows, seen, last_project_name, wpc,
                   scrape_log, first_walk, last_sector>>
    /\ UNCHANGED <<ids_vars, fmt_vars, main_vars, link_vars, extract_vars>>

(* line 134 raises ValueError: lines 157-160 print it and exit with status 1 *)
FixedVisitRaises ==
    /\ wpc = "fixed_loop"
    /\ elem_i <= Len(nodes)
    /\ nodes[elem_i].name = "a"
    /\ is_pdf_link(nodes[elem_i].href, nodes[elem_i].text)
    /\ urljoin_raises(nodes[elem_i].href)
    /\ wpc' = "fixed_exit"
    /\ UNCHANGED <<sector_name, nodes, elem_i, rows, seen, last_project_name,
                   scrape_log, first_walk, last_sector>>
    /\ UNCHANGED <<ids_vars, fmt_vars, main_vars, link_vars, extract_vars>>

(* lines 143-155: the frame made of rows is printed and saved *)
FixedSave ==
    /\ wpc = "fixed_loop"
    /\ elem_i > Len(nodes)
    /\ wpc' = "fixed_saved"
    /\ UNCHANGED <<sector_name, nodes, elem_i, rows, seen, last_project_name,
                   scrape_log, first_walk, last_sector>>
    /\ UNCHANGED <<ids_vars, fmt_vars, main_vars, link_vars, extract_vars>>

----------------------------------------------------------------------------
(* is_pdf_link and determine_document_type applied to one link *)

NoValue == [set |-> FALSE, value |-> <<>>]

ApplyIsPdfLink ==
    /\ link_in.given
    /\ ~pdf_out.set
    /\ pdf_out' = [set |-> TRUE, value |-> is_pdf_link(link_in.href, link_in.text)]
    /\ UNCHANGED <<link_in, type_out, type_out_fixed>>
    /\ UNCHANGED <<ids_vars, walk_vars, fmt_vars, main_vars, extract_vars>>

ApplyDetermineType ==
    /\ link_in.given
    /\ ~type_out.set
    /\ type_out' = [set |-> TRUE, value |-> determine_document_type(link_in.text, link_in.parent)]
    /\ UNCHANGED <<link_in, pdf_out, type_out_fixed>>
    /\ UNCHANGED <<ids_vars, walk_vars, fmt_vars, main_vars, extract_vars>>

ApplyDetermineTypeFixed ==
    /\ link_in.given
    /\ ~type_out_fixed.set
    /\ type_out_fixed' = [set |-> TRUE,
                          value |-> determine_document_type_fixed(link_in.text, link_in.parent)]
    /\ UNCHANGED <<link_in, pdf_out, type_out>>
    /\ UNCHANGED <<ids_vars, walk_vars, fmt_vars, main_vars, extract_vars>>

(* line 134: extract_date_and_size applied to one anchor *)
ApplyExtract ==
    /\ anchor_in.given
    /\ ~extract_out.set
    /\ extract_out' = [set |-> TRUE, value |-> extract_date_and_size(anchor_in)]
    /\ UNCHANGED anchor_in
    /\ UNCHANGED <<ids_vars, walk_vars, fmt_vars, main_vars, link_vars>>

----------------------------------------------------------------------------
(* The formatting of one identifier: line 70 for a document with a date, lines
   84-86 for one without *)

FormatDated ==
    /\ fmt_in # <<0, 0>>
    /\ fmt_out = Empty
    /\ fmt_out' = doc_id_of(fmt_in[1], fmt_in[2])
    /\ UNCHANGED fmt_in
    /\ UNCHANGED <<ids_vars, walk_vars, main_vars, link_vars, extract_vars>>

FormatNoDate ==
    /\ fmt_in # <<0, 0>>
    /\ fmt_out = Empty
    /\ \E max_id \in {0, fmt_in[2] - 1} :
          fmt_out' = doc_id_of(fmt_in[1], doc_num_of(max_id, fmt_in[2] - 1 - max_id))
    /\ UNCHANGED fmt_in
    /\ UNCHANGED <<ids_vars, walk_vars, main_vars, link_vars, extract_vars>>

----------------------------------------------------------------------------
(* The inputs *)

InputSectors == {"Doprava", "Informatizacia", "Z"}

DateTexts == {<<"1", "5", ".", "0", "6", ".", "2", "0", "1", "9">>,
              <<"0", "1", ".", "0", "1", ".", "2", "0", "2", "0">>,
              <<"1", ".", "1", ".", "2", "0", "2", "0">>,
              <<"3", "1", ".", "0", "2", ".", "2", "0", "2", "0">>,
              Empty,
              NaN}

InputRows == [Sector : InputSectors, Date : DateTexts]

InputFrames == UNION {[1..n -> InputRows] : n \in 0..MaxRows}

(* frames of rows without a date of two sectors of the mapping, long enough for
   two rows of each *)
UndatedRows == [Sector : {"Doprava", "Informatizacia"}, Date : {Empty, NaN}]

UndatedFrames == UNION {[1..n -> UndatedRows] : n \in 0..(MaxRows + 2)}

A_PDF == <<"a", ".", "p", "d", "f">>

(* the elements of a page: name, own text, href (None where the attribute is
   missing), the text of the parent element and the texts of the previous
   siblings (the nearest first) and of the next siblings *)
InputNodes ==
    {[name |-> "h4", text |-> <<"S">>, href |-> None,
      parent |-> <<>>, prev |-> <<>>, next |-> <<>>],
     [name |-> "h5", text |-> <<"P", "1">>, href |-> None,
      parent |-> <<>>, prev |-> <<>>, next |-> <<>>],
     [name |-> "h5", text |-> <<"P", "2">>, href |-> None,
      parent |-> <<>>, prev |-> <<>>, next |-> <<>>],
     [name |-> "a", text |-> <<"x">>, href |-> <<"/", "a", ".", "p", "d", "f">>,
      parent |-> <<"x">>, prev |-> <<>>, next |-> <<>>],
     [name |-> "a", text |-> <<"x">>, href |-> <<"a", ".", "p", "d", "f">>,
      parent |-> <<"Z", "m", "l", "u", "v", "a", " ", "x">>, prev |-> <<>>, next |-> <<>>],
     [name |-> "a", text |-> <<"x">>, href |-> <<"h", "t", "t", "p", "s", ":", "/", "/", "w", "w", "w", ".", "m", "f", "s", "r", ".",
      "s", "k", "/", "a", ".", "p", "d", "f">>,
      parent |-> <<"x">>, prev |-> <<>>, next |-> <<>>],
     [name |-> "a", text |-> <<"y">>, href |-> <<"/", "b", ".", "P", "D", "F">>,
      parent |-> <<"y">>,
      prev |-> <<<<"1", "2", ".", "0", "3", ".", "2", "0", "2", "0">>>>,
      next |-> <<<<"5", " ", "k", "B">>>>],
     [name |-> "a", text |-> <<"x">>, href |-> <<"/", "c">>,
      parent |-> <<"x">>, prev |-> <<>>, next |-> <<>>],
     [name |-> "a", text |-> <<"x">>, href |-> <<"/", "/", "[", "a", ".", "p", "d", "f">>,
      parent |-> <<"x">>, prev |-> <<>>, next |-> <<>>]}

InputPages == UNION {[1..n -> InputNodes] : n \in 0..MaxNodes}

(* the pages behind the urls of main: one with a document met twice under a
   project, with a link that is no document between, one where the second link
   makes urljoin raise, one with that document under no project *)
MainPages ==
    {<<[name |-> "h4", text |-> <<"S">>, href |-> None,
        parent |-> <<>>, prev |-> <<>>, next |-> <<>>],
       [name |-> "h5", text |-> <<"P", "1">>, href |-> None,
        parent |-> <<>>, prev |-> <<>>, next |-> <<>>],
       [name |-> "a", text |-> <<"y">>, href |-> <<"/", "b", ".", "P", "D", "F">>,
        parent |-> <<"y">>,
        prev |-> <<<<"1", "2", ".", "0", "3", ".", "2", "0", "2", "0">>>>,
        next |-> <<<<"5", " ", "k", "B">>>>],
       [name |-> "a", text |-> <<"x">>, href |-> <<"/", "c">>,
        parent |-> <<"x">>, prev |-> <<>>, next |-> <<>>],
       [name |-> "a", text |-> <<"y">>, href |-> <<"/", "b", ".", "P", "D", "F">>,
        parent |-> <<"y">>,
        prev |-> <<<<"1", "2", ".", "0", "3", ".", "2", "0", "2", "0">>>>,
        next |-> <<<<"5", " ", "k", "B">>>>]>>,
     <<[name |-> "a", text |-> <<"x">>, href |-> <<"/", "a", ".", "p", "d", "f">>,
        parent |-> <<"x">>, prev |-> <<>>, next |-> <<>>],
       [name |-> "a", text |-> <<"x">>, href |-> <<"/", "/", "[", "a", ".", "p", "d", "f">>,
        parent |-> <<"x">>, prev |-> <<>>, next |-> <<>>]>>,
     <<[name |-> "a", text |-> <<"y">>, href |-> <<"/", "b", ".", "P", "D", "F">>,
        parent |-> <<"y">>,
        prev |-> <<<<"1", "2", ".", "0", "3", ".", "2", "0", "2", "0">>>>,
        next |-> <<<<"5", " ", "k", "B">>>>]>>}

(* a page for every sector; the last two sectors have the pages of the first
   two *)
MainPageMaps ==
    {f \in [Range(SECTOR_URLS) -> MainPages] :
        f["Informatizacia"] = f["Obrana"] /\ f["Ostatne"] = f["Budovy"]}

(* link texts without a keyword, of every length up to MaxTextLen *)
FillerTexts == {[i \in 1..n |-> "x"] : n \in 0..MaxTextLen}

KeywordTexts ==
    {<<"P", "D", "F">>,
     <<"H", "o", "d", "n", "o", "t", "e", "n", "i", "e">>,
     <<"Z", "m", "l", "u", "v", "a", " ", "a", " ", "h", "o", "d", "n", "o", "t", "e", "n",
       "i", "e">>,
     <<"d", "o", "h", "o", "d", "a", " ", "a", " ", "z", "m", "l", "u", "v", "a">>,
     <<"A", "n", "a", "l", "y", "z", "a">>,
     <<"A", "n", "a", "l", "y'", "z", "a">>,
     <<"S^", "t", "u'", "d", "i", "a">>,
     <<"s^", "t", "u'", "d", "i", "a", " ", "u", "s", "k", "u", "t", "o", "c^", "n", "i",
       "t", "e", "l^", "n", "o", "s", "t", "i">>,
     <<"A", "k", "t", "u", "a", "l", "i", "z", "a'", "c", "i", "a">>,
     <<"S", "t", "a", "n", "o", "v", "i", "s", "k", "o">>,
     <<"s", "p", "r", "a'", "v", "a">>,
     <<"M", "e", "t", "o", "d", "i", "k", "a">>,
     <<"I", "n", "v", "e", "s", "t", "i", "c^", "n", "y'">>,
     <<"z", "m", "l", "u">>}

ParentTexts ==
    {<<>>,
     <<"u", "s", "k", "u", "t", "o", "c^", "n", "i", "t", "e", "l^", "n", "o", "s", "t", "i">>,
     <<"Z", "a'", "m", "e", "r">>,
     <<"v", "a">>,
     <<"D", "o", "h", "o", "d", "a">>,
     <<"x">>}

InputHrefs ==
    {None, Empty,
     <<"/", "a", ".", "p", "d", "f">>,
     <<"/", "b", ".", "P", "D", "F">>,
     <<"/", "c">>,
     <<"/", "p", "d", "f">>}

InputLinks ==
    [given : {TRUE}, href : InputHrefs, text : FillerTexts \cup KeywordTexts, parent : ParentTexts]

NoLink == [given |-> FALSE, href |-> None, text |-> Empty, parent |-> Empty]

NoAnchor == [given |-> FALSE, text |-> Empty, parent |-> Empty, prev |-> <<>>, next |-> <<>>]

SIBLING_DATE == <<"3", ".", "4", ".", "2", "0", "2", "1">>

SIBLING_SIZE == <<"2", " ", "M", "B">>

(* n sibling texts "x", the one at position at replaced by the text special *)
siblings(n, at, special) == [i \in 1..n |-> IF i = at THEN special ELSE <<"x">>]

(* the numbers of siblings tried: none, one, and the three largest up to most *)
sibling_counts(most) == {0, 1} \cup ((most - 2)..most)

(* the previous siblings of an anchor, the nearest first: texts without a
   date, or with a date in the farthest; and two with an empty text *)
InputPrev ==
    {siblings(n, 0, SIBLING_DATE) : n \in sibling_counts(MaxPrev)}
        \cup {siblings(n, n, SIBLING_DATE) : n \in sibling_counts(MaxPrev) \ {0}}
        \cup {<<Empty, SIBLING_DATE>>, <<Empty, <<"x">>, Empty>>}

InputNext ==
    {siblings(n, 0, SIBLING_SIZE) : n \in sibling_counts(MaxNext)}
        \cup {siblings(n, n, SIBLING_SIZE) : n \in sibling_counts(MaxNext) \ {0}}

AnchorTexts ==
    {<<"x">>,
     <<"5", " ", "k", "B">>,
     <<"1", ".", "2", ".", "2", "0", "2", "0">>,
     <<"1", "2", ".", "0", "3", ".">>}

AnchorParents ==
    {<<>>,
     <<"x", " ", "1", "2", ".", "0", "3", ".", "2", "0", "2", "0", ",", " ", "1", ",", "5",
      "M", "B">>,
     <<"2", "0", "2", "0", " ", "x">>}

InputAnchors ==
    [given : {TRUE}, text : AnchorTexts, parent : AnchorParents,
     prev : InputPrev, next : InputNext]

WalkIdle ==
    /\ sector_name = ""
    /\ nodes = <<>>
    /\ elem_i = 0
    /\ rows = <<>>
    /\ seen = {}
    /\ last_project_name = <<>>
    /\ wpc = "idle"
    /\ scrape_log = {}
    /\ first_walk = NoWalk
    /\ last_sector = <<>>

MainIdle ==
    /\ all_rows = <<>>
    /\ pages = <<>>
    /\ main_k = 0
    /\ mpc = "idle"

LinkIdle ==
    /\ link_in = NoLink
    /\ pdf_out = NoValue
    /\ type_out = NoValue
    /\ type_out_fixed = NoValue

ExtractIdle ==
    /\ anchor_in = NoAnchor
    /\ extract_out = NoValue

FmtIdle ==
    /\ fmt_in = <<0, 0>>
    /\ fmt_out = Empty

IdsIdle ==
    /\ df = <<>>
    /\ df_with_ids = <<>>
    /\ pc = "idle"
    /\ sector_k = 0
    /\ random_state = 0
    /\ printed = {}
    /\ first_result = NoResult
    /\ rs_at_call = 0

----------------------------------------------------------------------------
(* create_unique_ids on every frame of at most MaxRows rows, from every state
   of the generator *)

Init ==
    /\ df \in InputFrames
    /\ df_with_ids = <<>>
    /\ pc = "start"
    /\ sector_k = 0
    /\ random_state \in 0..(RngStates - 1)
    /\ printed = {}
    /\ first_result = NoResult
    /\ rs_at_call = 0
    /\ WalkIdle
    /\ FmtIdle
    /\ MainIdle
    /\ LinkIdle
    /\ ExtractIdle

Next ==
    \/ Call
    \/ SkipSector
    \/ ProcessSector
    \/ Return
    \/ CallAgain

Spec == Init /\ [][Next]_vars

(* create_unique_ids on every frame of UndatedFrames, from every state of the
   generator *)

UndatedInit ==
    /\ df \in UndatedFrames
    /\ df_with_ids = <<>>
    /\ pc = "start"
    /\ sector_k = 0
    /\ random_state \in 0..(RngStates - 1)
    /\ printed = {}
    /\ first_result = NoResult
    /\ rs_at_call = 0
    /\ WalkIdle
    /\ FmtIdle
    /\ MainIdle
    /\ LinkIdle
    /\ ExtractIdle

UndatedNext ==
    \/ Call
    \/ SkipSector
    \/ ProcessSector
    \/ Return

SpecUndated == UndatedInit /\ [][UndatedNext]_vars

(* scrape_sector_page on every page of at most MaxNodes elements, called twice *)

WalkInit ==
    /\ sector_name = "Doprava"
    /\ nodes \in InputPages
    /\ elem_i = 0
    /\ rows = <<>>
    /\ seen = {}
    /\ last_project_name = <<>>
    /\ wpc = "fetch"
    /\ scrape_log = {}
    /\ first_walk = NoWalk
    /\ last_sector = <<>>
    /\ IdsIdle
    /\ FmtIdle
    /\ MainIdle
    /\ LinkIdle
    /\ ExtractIdle

WalkNext ==
    \/ FetchFails
    \/ FetchOk
    \/ VisitH4
    \/ VisitH5
    \/ VisitPdfLink
    \/ VisitOtherLink
    \/ VisitRaises
    \/ WalkReturn
    \/ WalkAgain

SpecWalk == WalkInit /\ [][WalkNext]_vars

(* complete_mfsr_scraper.main over the five sectors, with the pages of MainPageMaps *)

MainInit ==
    /\ pages \in MainPageMaps
    /\ all_rows = <<>>
    /\ main_k = 1
    /\ mpc = "call"
    /\ WalkIdle
    /\ IdsIdle
    /\ FmtIdle
    /\ LinkIdle
    /\ ExtractIdle

MainNext ==
    \/ MainCall
    \/ FetchFails
    \/ FetchOk
    \/ VisitH4
    \/ VisitH5
    \/ VisitPdfLink
    \/ VisitOtherLink
    \/ VisitRaises
    \/ WalkReturn
    \/ MainExtend
    \/ MainDone

SpecMain == MainInit /\ [][MainNext]_vars

(* fixed_mfsr_scraper.main on every page of at most MaxNodes elements *)

FixedInit ==
    /\ sector_name = ""
    /\ nodes \in InputPages
    /\ elem_i = 0
    /\ rows = <<>>
    /\ seen = {}
    /\ last_project_name = <<>>
    /\ wpc = "fixed_fetch"
    /\ scrape_log = {}
    /\ first_walk = NoWalk
    /\ last_sector = <<>>
    /\ IdsIdle
    /\ FmtIdle
    /\ MainIdle
    /\ LinkIdle
    /\ ExtractIdle

FixedNext ==
    \/ FixedFetchFails
    \/ FixedFetchOk
    \/ FixedVisitH4
    \/ FixedVisitH5
    \/ FixedVisitPdfLink
    \/ FixedVisitOtherLink
    \/ FixedVisitRaises
    \/ FixedSave

SpecFixed == FixedInit /\ [][FixedNext]_vars

(* is_pdf_link and both determine_document_type on every link of InputLinks *)

LinkInit ==
    /\ link_in \in InputLinks
    /\ pdf_out = NoValue
    /\ type_out = NoValue
    /\ type_out_fixed = NoValue
    /\ IdsIdle
    /\ WalkIdle
    /\ FmtIdle
    /\ MainIdle
    /\ ExtractIdle

LinkNext ==
    \/ ApplyIsPdfLink
    \/ ApplyDetermineType
    \/ ApplyDetermineTypeFixed

SpecLink == LinkInit /\ [][LinkNext]_vars

(* extract_date_and_size on every anchor of InputAnchors *)

ExtractInit ==
    /\ anchor_in \in InputAnchors
    /\ extract_out = NoValue
    /\ IdsIdle
    /\ WalkIdle
    /\ FmtIdle
    /\ MainIdle
    /\ LinkIdle

ExtractNext == ApplyExtract

SpecExtract == ExtractInit /\ [][ExtractNext]_vars

(* the formatting of every identifier of a sector of the mapping and a number
   of at most MaxSeq *)

FormatInit ==
    /\ fmt_in \in {sector_mapping[s] : s \in DOMAIN sector_mapping} \X (1..MaxSeq)
    /\ fmt_out = Empty
    /\ IdsIdle
    /\ WalkIdle
    /\ MainIdle
    /\ LinkIdle
    /\ ExtractIdle

FormatNext ==
    \/ FormatDated
    \/ FormatNoDate

(* the identifiers of the runs of create_unique_ids together with those of the
   numbers no small frame reaches *)
SpecFormat == (Init \/ FormatInit) /\ [][Next \/ FormatNext]_vars

----------------------------------------------------------------------------
(* What the properties below read from a state *)

Mapped(sector) == sector \in DOMAIN sector_mapping

Returned == pc = "returned"

(* the sequence number written in an identifier; 0 where the text is not of the
   form digits "." digits *)
SeqIn(id) ==
    LET f == split(id, ".")
    IN IF Len(f) = 2 /\ Len(f[2]) > 0 /\ AllDigits(f[2]) THEN int(f[2]) ELSE 0

RowsOf(frame, sector) == {i \in 1..Len(frame) : frame[i].Sector = sector}

Dated(frame, i) == parse_date(frame[i].Date) # None

PdfLinks == {k \in 1..Len(nodes) : nodes[k].name = "a" /\ is_pdf_link(nodes[k].href, nodes[k].text)}

(* C1: at every point of a page walk, no two rows of the record list share the
   triple (sector, project, absolute URL). *)
C1_NoDuplicateKey ==
    \A i, j \in 1..Len(rows) :
        i # j => <<rows[i].Sector, rows[i].Project, rows[i].URL>>
                   # <<rows[j].Sector, rows[j].Project, rows[j].URL>>

(* a finished walk that met one document three times, under hrefs that are not
   all the same text, and kept it once *)
C1_Witness ==
    /\ wpc = "returned"
    /\ Cardinality(PdfLinks) = 3
    /\ Len(rows) = 1
    /\ \E a, b \in PdfLinks : nodes[a].href # nodes[b].href

(* C2: the Document_ID values of the returned frame are pairwise different,
   also when rows of a sector outside the mapping are present. *)
C2_AllIdsDistinct ==
    Returned =>
        \A i, j \in 1..Len(df_with_ids) :
            i # j => df_with_ids[i].Document_ID # df_with_ids[j].Document_ID

(* C3: in the returned frame, of two rows of one mapped sector whose dates
   parse, the one with the strictly earlier date has the strictly smaller
   sequence number. *)
C3_Chronological ==
    Returned =>
        \A i, j \in 1..Len(df_with_ids) :
            (/\ df_with_ids[i].Sector = df_with_ids[j].Sector
             /\ Mapped(df_with_ids[i].Sector)
             /\ Dated(df_with_ids, i) /\ Dated(df_with_ids, j)
             /\ datetime_lt(parse_date(df_with_ids[i].Date), parse_date(df_with_ids[j].Date)))
            => SeqIn(df_with_ids[i].Document_ID) < SeqIn(df_with_ids[j].Document_ID)

(* 01.01.2020 stands before 15.06.2019 in the input, and gets 1.002 and 1.001 *)
C3_Witness ==
    /\ Returned
    /\ Len(df_with_ids) = 2
    /\ df_with_ids[1].Sector = "Doprava" /\ df_with_ids[2].Sector = "Doprava"
    /\ df_with_ids[1].Date = <<"0", "1", ".", "0", "1", ".", "2", "0", "2", "0">>
    /\ df_with_ids[2].Date = <<"1", "5", ".", "0", "6", ".", "2", "0", "1", "9">>
    /\ df_with_ids[1].Document_ID = <<"1", ".", "0", "0", "2">>
    /\ df_with_ids[2].Document_ID = <<"1", ".", "0", "0", "1">>

NoDateTexts == {NaN, Empty, <<"3", "1", ".", "0", "2", ".", "2", "0", "2", "0">>}

(* C4: a row whose Date is absent, empty or 31.02.2020 has no parsed date while
   the sectors are processed, the call returns, and in the returned frame the
   row's sequence number is greater than that of every row of its (mapped)
   sector with a valid date. *)
C4_UndatedAfterDated ==
    /\ pc = "loop" =>
          \A i \in 1..Len(df_with_ids) :
              df_with_ids[i].Date \in NoDateTexts => df_with_ids[i].Date_parsed = None
    /\ Returned =>
          \A i, j \in 1..Len(df_with_ids) :
              (/\ df_with_ids[i].Sector = df_with_ids[j].Sector
               /\ Mapped(df_with_ids[i].Sector)
               /\ df_with_ids[i].Date \in NoDateTexts
               /\ df_with_ids[j].Date \notin NoDateTexts)
              => SeqIn(df_with_ids[i].Document_ID) > SeqIn(df_with_ids[j].Document_ID)

(* 31.02.2020 stands before a valid date in the input and is numbered after it *)
C4_Witness ==
    /\ Returned
    /\ Len(df_with_ids) = 2
    /\ df_with_ids[1].Sector = "Informatizacia" /\ df_with_ids[2].Sector = "Informatizacia"
    /\ df_with_ids[1].Date = <<"3", "1", ".", "0", "2", ".", "2", "0", "2", "0">>
    /\ df_with_ids[2].Date = <<"1", ".", "1", ".", "2", "0", "2", "0">>
    /\ df_with_ids[1].Document_ID = <<"2", ".", "0", "0", "2">>
    /\ df_with_ids[2].Document_ID = <<"2", ".", "0", "0", "1">>

(* C5: in the returned frame, two rows of one mapped sector with equal parsed
   dates are numbered in their input order. *)
C5_StableTies ==
    Returned =>
        \A i, j \in 1..Len(df_with_ids) :
            (/\ i < j
             /\ df_with_ids[i].Sector = df_with_ids[j].Sector
             /\ Mapped(df_with_ids[i].Sector)
             /\ Dated(df_with_ids, i)
             /\ parse_date(df_with_ids[i].Date) = parse_date(df_with_ids[j].Date))
            => SeqIn(df_with_ids[i].Document_ID) < SeqIn(df_with_ids[j].Document_ID)

(* C6: in the returned frame, for every mapped sector with D dated and U undated
   rows, the sequence numbers of the dated rows are exactly 1..D and those of
   the undated rows exactly D+1..D+U. *)
C6_DenseSequence ==
    Returned =>
        \A s \in DOMAIN sector_mapping :
            LET D == {i \in RowsOf(df_with_ids, s) : Dated(df_with_ids, i)}
                U == RowsOf(df_with_ids, s) \ D
            IN /\ {SeqIn(df_with_ids[i].Document_ID) : i \in D} = 1..Cardinality(D)
               /\ {SeqIn(df_with_ids[i].Document_ID) : i \in U}
                    = (Cardinality(D) + 1)..(Cardinality(D) + Cardinality(U))

(* a sector with one dated and one undated row *)
C6_Witness ==
    /\ Returned
    /\ \E s \in DOMAIN sector_mapping :
          \E i, j \in RowsOf(df_with_ids, s) :
              /\ i < j
              /\ ~Dated(df_with_ids, i) /\ Dated(df_with_ids, j)
              /\ SeqIn(df_with_ids[i].Document_ID) = 2
              /\ SeqIn(df_with_ids[j].Document_ID) = 1

(* the frames create_unique_ids can return from a working frame at sector k *)
RECURSIVE run_outcomes(_, _, _)
run_outcomes(frame, k, rs) ==
    IF k > Len(sector_items) THEN {drop_date_parsed(frame)}
    ELSE LET idx == sector_filter(frame, sector_items[k])
         IN IF Len(idx) = 0 THEN run_outcomes(frame, k + 1, rs)
            ELSE UNION {run_outcomes(r.frame, k + 1, r.rs) :
                          r \in {process_sector(frame, sector_items[k], order, rs) :
                                   order \in sort_values(frame, idx)}}

create_unique_ids_outcomes(frame, rs) ==
    run_outcomes(with_empty_ids(with_date_parsed(frame)), 1, rs)

MappedIndex(frame) == SelectSeq(Index(frame), LAMBDA i : Mapped(frame[i].Sector))

WithoutUnmapped(frame) ==
    [k \in 1..Len(MappedIndex(frame)) |->
        [Sector |-> frame[MappedIndex(frame)[k]].Sector,
         Date |-> frame[MappedIndex(frame)[k]].Date]]

(* C7: in the returned frame the rows of a sector outside the mapping have the
   empty Document_ID, and the identifiers of the other rows are identifiers
   the call returns, from the same generator state, for the input without
   the rows of unknown sectors. *)
C7_UnmappedExcluded ==
    Returned =>
        /\ \A i \in 1..Len(df_with_ids) :
              ~Mapped(df_with_ids[i].Sector) => df_with_ids[i].Document_ID = Empty
        /\ \E g \in create_unique_ids_outcomes(WithoutUnmapped(df), rs_at_call) :
              \A k \in 1..Len(g) :
                  g[k].Document_ID = df_with_ids[MappedIndex(df)[k]].Document_ID

(* a row of the unknown sector Z stands before a row of a mapped sector *)
C7_Witness ==
    /\ Returned
    /\ \E i, j \in 1..Len(df_with_ids) :
          /\ i < j
          /\ ~Mapped(df_with_ids[i].Sector)
          /\ Mapped(df_with_ids[j].Sector)
          /\ df_with_ids[i].Document_ID = Empty
          /\ df_with_ids[j].Document_ID # Empty

(* C8: when create_unique_ids returns a frame with a row of a sector outside
   the mapping, it has reported that sector. *)
C8_UnknownSectorReported ==
    Returned =>
        \A i \in 1..Len(df_with_ids) :
            ~Mapped(df_with_ids[i].Sector) => df_with_ids[i].Sector \in printed

(* C9: two calls of create_unique_ids on the same frame give every row without
   a date the same identifier, whatever the state of the global generator. *)
C9_SameIdsOnRerun ==
    (Returned /\ first_result.made) =>
        \A i \in 1..Len(df_with_ids) :
            ~Dated(df_with_ids, i) =>
                df_with_ids[i].Document_ID = first_result.frame[i].Document_ID

WellFormedId(id, code, n) ==
    LET f == split(id, ".")
    IN /\ Len(f) = 2
       /\ Len(f[1]) > 0 /\ AllDigits(f[1]) /\ f[1][1] # "0" /\ int(f[1]) = code
       /\ Len(f[2]) >= 3 /\ AllDigits(f[2]) /\ int(f[2]) = n
       /\ Len(f[2]) > 3 => f[2][1] # "0"

(* C10: every identifier formatted from a sector code and a positive number is
   the code in decimal, a dot, and the number in decimal with zeros on the
   left up to 3 digits and no digit dropped; every non-empty identifier of a
   frame starts with the code of its row's sector and carries a positive
   number in that form. *)
C10_IdFormat ==
    /\ fmt_out # Empty => WellFormedId(fmt_out, fmt_in[1], fmt_in[2])
    /\ pc \in {"loop", "returned"} =>
          \A i \in 1..Len(df_with_ids) :
              df_with_ids[i].Document_ID # Empty =>
                  /\ Mapped(df_with_ids[i].Sector)
                  /\ SeqIn(df_with_ids[i].Document_ID) >= 1
                  /\ WellFormedId(df_with_ids[i].Document_ID,
                                  sector_mapping[df_with_ids[i].Sector],
                                  SeqIn(df_with_ids[i].Document_ID))

(* the number 1000 formatted in full *)
C10_Witness ==
    /\ fmt_in[2] = 1000
    /\ fmt_out = <<DigitChars[fmt_in[1] + 1], ".", "1", "0", "0", "0">>

----------------------------------------------------------------------------
(* What the properties of the page walk read from a state *)

Walking == wpc = "loop" /\ elem_i <= Len(nodes)

WalkOver == wpc \in {"returned", "failed"} /\ elem_i >= 1

IsDocumentLink(n) == n.name = "a" /\ is_pdf_link(n.href, n.text)

(* the text of the last h5 before position k of the elements ns *)
ProjectAt(ns, k) ==
    LET hs == {h \in 1..(k - 1) : ns[h].name = "h5"}
    IN IF hs = {} THEN UNKNOWN_PROJECT
       ELSE ns[CHOOSE h \in hs : \A m \in hs : m <= h].text

KeyOfRow(row) == <<row.Sector, row.Project, row.URL>>

KeyAt(sector, ns, k) == <<sector, ProjectAt(ns, k), urljoin(BASE, ns[k].href)>>

(* the positions of the document links of ns that carry the key of a row *)
Encounters(sector, ns, row) ==
    {k \in 1..Len(ns) : IsDocumentLink(ns[k]) /\ KeyAt(sector, ns, k) = KeyOfRow(row)}

FirstEncounter(sector, ns, row) ==
    LET met == Encounters(sector, ns, row)
    IN CHOOSE k \in met : \A m \in met : k <= m

(* the records a walk of the elements ns is to give: one for the first
   document link of every key, in the order of the page *)
WalkRows(sector, ns) ==
    LET firsts == {k \in 1..Len(ns) :
                     /\ IsDocumentLink(ns[k])
                     /\ \A m \in 1..(k - 1) :
                           IsDocumentLink(ns[m]) => KeyAt(sector, ns, m) # KeyAt(sector, ns, k)}
        RowAt(k) == LET found == extract_date_and_size(ns[k])
                    IN [Sector |-> sector, Project |-> ProjectAt(ns, k),
                        Type |-> determine_document_type(ns[k].text, ns[k].parent),
                        URL |-> urljoin(BASE, ns[k].href),
                        Date |-> or_empty(found.date),
                        File_Size |-> or_empty(found.size)]
        RECURSIVE Upto(_)
        Upto(k) == IF k = 0 THEN <<>>
                   ELSE IF k \in firsts THEN Append(Upto(k - 1), RowAt(k))
                   ELSE Upto(k - 1)
    IN Upto(Len(ns))

IsOtherLink(n) == n.name = "a" /\ ~is_pdf_link(n.href, n.text)

NotOtherLink(n) == ~IsOtherLink(n)

ReadFails(n) == IsDocumentLink(n) /\ urljoin_raises(n.href)

Readable(n) == ~ReadFails(n)

(* C11: a record added during a page walk has the text of the last h5 before
   its link as project, UNKNOWN_PROJECT where there is none, and every h5
   makes its text the current project whatever the project was. *)
C11_ProjectOfLastH5 ==
    [][/\ (Walking /\ wpc' = "loop" /\ rows' # rows)
          => /\ Len(rows') = Len(rows) + 1
             /\ rows'[Len(rows')].Project = ProjectAt(nodes, elem_i)
             /\ \A i \in 1..Len(rows') :
                   rows'[i].Project = ProjectAt(nodes, FirstEncounter(sector_name, nodes, rows'[i]))
       /\ (Walking /\ nodes[elem_i].name = "h5" /\ elem_i' = elem_i + 1)
          => last_project_name' = nodes[elem_i].text]_vars

(* a page with two h5 and then a document: the record has the second text *)
C11_Witness ==
    /\ wpc = "returned"
    /\ Len(nodes) = 3
    /\ nodes[1].name = "h5" /\ nodes[2].name = "h5" /\ nodes[1].text # nodes[2].text
    /\ Len(rows) = 1
    /\ rows[1].Project = nodes[2].text

(* C12: a step over a link that is no document link leaves the current project,
   the seen keys and the records as they were, and a finished walk gives the
   records of the walk of the same elements without those links. *)
C12_OtherLinkChangesNothing ==
    /\ [][(Walking /\ IsOtherLink(nodes[elem_i]) /\ elem_i' # elem_i)
            => (rows' = rows /\ seen' = seen /\ last_project_name' = last_project_name)]_vars
    /\ [](wpc = "returned" => rows = WalkRows(sector_name, SelectSeq(nodes, NotOtherLink)))

(* an h5, a link that is no document, a document: the record has the project
   of the h5 *)
C12_Witness ==
    /\ wpc = "returned"
    /\ Len(nodes) = 3
    /\ nodes[1].name = "h5"
    /\ IsOtherLink(nodes[2])
    /\ IsDocumentLink(nodes[3])
    /\ Len(rows) = 1
    /\ rows[1].Project = nodes[1].text

(* What the properties of is_pdf_link and determine_document_type read *)

SameLetter(c, l) == c = l \/ \E k \in 1..Len(LowerChars) : LowerChars[k] = l /\ UpperChars[k] = c

ContainsAnyCase(s, sub) ==
    \E k \in 0..(Len(s) - Len(sub)) : \A j \in 1..Len(sub) : SameLetter(s[k + j], sub[j])

HrefHasIndicator(href) == href # None /\ ContainsAnyCase(href, <<".", "p", "d", "f">>)

TextHasIndicator(text) == ContainsAnyCase(text, <<"p", "d", "f">>)

(* C13, as stated: is_pdf_link is true exactly when the href has the indicator
   or the text has it, whatever the href is. *)
C13_CandidateIffIndicator ==
    pdf_out.set =>
        pdf_out.value = (HrefHasIndicator(link_in.href) \/ TextHasIndicator(link_in.text))

(* C13, amended: is_pdf_link is true exactly when the href is present and not
   empty, and the href has ".pdf" or the text has "pdf", in any case of the
   letters. *)
C13_CandidateIffHrefAndIndicator ==
    pdf_out.set =>
        pdf_out.value = (/\ link_in.href # None
                         /\ link_in.href # Empty
                         /\ \/ HrefHasIndicator(link_in.href)
                            \/ TextHasIndicator(link_in.text))

(* the text says PDF, the href is missing: no candidate *)
C13_Witness ==
    /\ pdf_out.set
    /\ link_in.href = None
    /\ link_in.text = <<"P", "D", "F">>
    /\ pdf_out.value = FALSE

(* C14: every record of a page walk has the category the page was fetched for;
   an h4 changes neither the category, nor the project, nor the key of the
   links after it. *)
C14_CategoryFromCaller ==
    /\ wpc \in {"loop", "returned"} => \A i \in 1..Len(rows) : rows[i].Sector = sector_name
    /\ wpc \in {"fixed_loop", "fixed_saved"} => \A i \in 1..Len(rows) : rows[i].Sector = PAGE_SECTOR

(* C15: the records of a page walk stand in the order in which their keys were
   first met in the page. *)
C15_EncounterOrder ==
    wpc \in {"loop", "returned"} =>
        \A i, j \in 1..Len(rows) :
            i < j => /\ Encounters(sector_name, nodes, rows[i]) # {}
                     /\ Encounters(sector_name, nodes, rows[j]) # {}
                     /\ FirstEncounter(sector_name, nodes, rows[i])
                          < FirstEncounter(sector_name, nodes, rows[j])

(* a document, another one, the first one again: two records, in that order *)
C15_Witness ==
    /\ wpc = "returned"
    /\ Len(nodes) = 3
    /\ \A k \in 1..3 : IsDocumentLink(nodes[k])
    /\ Len(rows) = 2
    /\ rows[1].URL = urljoin(BASE, nodes[1].href)
    /\ rows[1].URL = urljoin(BASE, nodes[3].href)
    /\ rows[2].URL = urljoin(BASE, nodes[2].href)

(* C16: a walk in which the reading of an element fails ends with the records
   of the walk of the other elements: those before the failure are kept and
   the elements after it are walked. *)
C16_NodeFailureIsolated ==
    WalkOver => rows = WalkRows(sector_name, SelectSeq(nodes, Readable))

(* What the properties of main read from a state *)

Failed(sector) == <<sector, "non200">> \in scrape_log \/ <<sector, "error">> \in scrape_log

Scraped(sector) == \E message \in {"non200", "error", "found"} : <<sector, message>> \in scrape_log

Contribution(sector) == IF Failed(sector) THEN <<>> ELSE WalkRows(sector, pages[sector])

RECURSIVE Collected(_)
Collected(k) == IF k = 0 THEN <<>> ELSE Collected(k - 1) \o Contribution(SECTOR_URLS[k])

(* C17: in main, all_rows is at every moment the records of the sectors walked
   so far, in their order, with nothing for a sector whose request or walk
   failed; and when main is done every sector has been scraped. *)
C17_FailureOfOneSector ==
    /\ mpc \in {"call", "scraping", "done"} => all_rows = Collected(main_k - 1)
    /\ mpc = "done" => \A k \in 1..Len(SECTOR_URLS) : Scraped(SECTOR_URLS[k])

(* main is done, the second sector failed, the first and the last gave records *)
C17_Witness ==
    /\ mpc = "done"
    /\ Failed("Budovy")
    /\ ~Failed("Obrana") /\ ~Failed("Ostatne")
    /\ Len(all_rows) >= 2
    /\ all_rows[1].Sector = "Obrana"
    /\ all_rows[Len(all_rows)].Sector = "Ostatne"

(* C18: a second walk of the same page for the same sector ends with the
   records of the first. *)
C18_SameRowsOnRewalk ==
    (first_walk.made /\ first_walk.parsed /\ WalkOver) => rows = first_walk.rows

(* both walks met three document links and kept two records *)
C18_Witness ==
    /\ first_walk.made /\ first_walk.parsed
    /\ wpc = "returned"
    /\ Cardinality(PdfLinks) = 3
    /\ Len(rows) = 2
    /\ Len(first_walk.rows) = 2

(* the keywords in the order of the tests, each with the label returned *)
Keywords ==
    <<[kw |-> kw_hodnotenie, label |-> kw_hodnotenie],
      [kw |-> kw_analyza_acute, label |-> kw_analyza_acute],
      [kw |-> kw_analyza, label |-> kw_analyza_acute],
      [kw |-> kw_studia_uskutocnitelnosti, label |-> kw_studia_uskutocnitelnosti],
      [kw |-> kw_aktualizacia, label |-> kw_aktualizacia],
      [kw |-> kw_stanovisko, label |-> kw_stanovisko],
      [kw |-> kw_sprava, label |-> kw_sprava],
      [kw |-> kw_metodika, label |-> kw_metodika],
      [kw |-> kw_zmluva, label |-> kw_zmluva],
      [kw |-> kw_dohoda, label |-> kw_dohoda],
      [kw |-> kw_investicny_zamer, label |-> kw_investicny_zamer]>>

KeywordsFixed == SubSeq(Keywords, 1, Len(Keywords) - 1)

Hits(list, t) == {k \in 1..Len(list) : contains(t, list[k].kw)}

FirstLabel(list, t) == list[CHOOSE k \in Hits(list, t) : \A m \in Hits(list, t) : k <= m].label

Searched == text_to_search(link_in.text, link_in.parent)

(* C19: where a keyword occurs in the lower-cased text made of the link text, a
   space and the parent text, determine_document_type returns the label of the
   first keyword of the list that occurs, for the list of either file. *)
C19_FirstKeywordOfList ==
    /\ (type_out.set /\ Hits(Keywords, Searched) # {})
          => type_out.value = FirstLabel(Keywords, Searched)
    /\ (type_out_fixed.set /\ Hits(KeywordsFixed, Searched) # {})
          => type_out_fixed.value = FirstLabel(KeywordsFixed, Searched)

(* zmluva stands first in the text, hodnotenie first in the list *)
C19_Witness ==
    /\ type_out.set
    /\ link_in.text = <<"Z", "m", "l", "u", "v", "a", " ", "a", " ", "h", "o", "d", "n", "o", "t", "e", "n",
      "i", "e">>
    /\ contains(Searched, kw_zmluva)
    /\ type_out.value = kw_hodnotenie

NoKeywordIn(text) == Hits(Keywords, lower(text)) = {}

(* the link text, cut after 50 characters and followed by three dots where it
   is longer *)
CutAt50(text) ==
    IF Len(text) <= 50 THEN text
    ELSE [i \in 1..53 |-> IF i <= 50 THEN text[i] ELSE "."]

(* C20, as stated: where no keyword occurs in the link text and none in the
   parent text, the link text is returned, cut after 50 characters. *)
C20_FallbackWhenNoKeywordInEither ==
    (type_out.set /\ NoKeywordIn(link_in.text) /\ NoKeywordIn(link_in.parent))
        => type_out.value = CutAt50(link_in.text)

(* C20, amended: where no keyword occurs in the lower-cased text made of the
   link text, a space and the parent text, the link text is returned: as it is
   when it has at most 50 characters, else its first 50 characters followed by
   three dots. *)
C20_FallbackTruncation ==
    (type_out.set /\ Hits(Keywords, Searched) = {})
        => type_out.value = CutAt50(link_in.text)

(* a link text of 51 characters comes back as 50 characters and the marker *)
C20_Witness ==
    /\ type_out.set
    /\ Len(link_in.text) = 51
    /\ Hits(Keywords, Searched) = {}
    /\ Len(type_out.value) = 53
    /\ SubSeq(type_out.value, 51, 53) = <<".", ".", ".">>

OnlySector(frame, sector) ==
    [k \in 1..Len(sector_filter(frame, sector)) |->
        [Sector |-> frame[sector_filter(frame, sector)[k]].Sector,
         Date |-> frame[sector_filter(frame, sector)[k]].Date]]

(* C22: the identifiers the rows of a sector have in the returned frame are
   identifiers the call returns, from the same generator state, for the rows
   of that sector alone. *)
C22_OtherSectorsDoNotMatter ==
    Returned =>
        \A sector \in DOMAIN sector_mapping :
            \E g \in create_unique_ids_outcomes(OnlySector(df, sector), rs_at_call) :
                \A k \in 1..Len(g) :
                    g[k].Document_ID = df_with_ids[sector_filter(df, sector)[k]].Document_ID

(* C23: during and after the call the frame of the caller has the columns it
   was passed with, and the rows of the returned frame have the Sector and the
   Date of the rows passed. *)
C23_InputFrameUnchanged ==
    /\ pc \in {"loop", "returned"} => \A i \in 1..Len(df) : DOMAIN df[i] = {"Sector", "Date"}
    /\ Returned =>
          /\ Len(df_with_ids) = Len(df)
          /\ \A i \in 1..Len(df) :
                df_with_ids[i].Sector = df[i].Sector /\ df_with_ids[i].Date = df[i].Date

(* C25: the working frame has one row for every row passed, with its Sector
   and Date; in the returned frame every row of a sector of the mapping has an
   identifier; and an identifier once written stays as it is until the call
   returns. *)
C25_EveryRowKeptIdWrittenOnce ==
    /\ [](pc \in {"loop", "returned"} =>
            /\ Len(df_with_ids) = Len(df)
            /\ \A i \in 1..Len(df) :
                  df_with_ids[i].Sector = df[i].Sector /\ df_with_ids[i].Date = df[i].Date)
    /\ [](Returned =>
            \A i \in 1..Len(df_with_ids) :
                Mapped(df_with_ids[i].Sector) => df_with_ids[i].Document_ID # Empty)
    /\ [][pc = "loop" =>
            \A i \in 1..Len(df_with_ids) :
                df_with_ids[i].Document_ID # Empty
                    => df_with_ids'[i].Document_ID = df_with_ids[i].Document_ID]_vars

(* a row of the second sector of the mapping before a row of the first: both
   have their identifier when the call returns *)
C25_Witness ==
    /\ Returned
    /\ Len(df_with_ids) = 2
    /\ df_with_ids[1].Sector = "Informatizacia"
    /\ df_with_ids[2].Sector = "Doprava"
    /\ df_with_ids[1].Document_ID # Empty
    /\ df_with_ids[2].Document_ID # Empty

(* C24: every call of scrape_sector_page starts its loop with the project
   UNKNOWN_PROJECT, no seen key and no record, and in main the records a call
   returns are those of a walk of its own page alone. *)
C24_FreshContextPerWalk ==
    /\ [][(wpc = "fetch" /\ wpc' = "loop")
            => (last_project_name' = UNKNOWN_PROJECT /\ seen' = {} /\ rows' = <<>>)]_vars
    /\ []((mpc = "scraping" /\ wpc = "returned")
            => rows = WalkRows(sector_name, pages[sector_name]))

(* the page of the first sector had the document under the project of an h5,
   the page of the second has it with no h5: its record has UNKNOWN_PROJECT *)
C24_Witness ==
    /\ mpc = "scraping"
    /\ main_k = 2
    /\ wpc = "returned"
    /\ Len(all_rows) = 1
    /\ all_rows[1].Project # UNKNOWN_PROJECT
    /\ Len(rows) = 1
    /\ rows[1].URL = all_rows[1].URL
    /\ rows[1].Project = UNKNOWN_PROJECT

(* What the property of extract_date_and_size reads from a state *)

(* the texts searched, in their order: own text, parent text, the 12 nearest
   previous siblings, the first 6 next siblings; the empty ones left out, one
   space between two of them *)
SearchedTexts(anchor) ==
    LET taken == [i \in 1..(2 + Len(anchor.prev) + Len(anchor.next)) |->
                    IF i = 1 THEN [text |-> anchor.text, in |-> TRUE]
                    ELSE IF i = 2 THEN [text |-> anchor.parent, in |-> TRUE]
                    ELSE IF i <= 2 + Len(anchor.prev)
                         THEN [text |-> anchor.prev[i - 2], in |-> i - 2 <= 12]
                    ELSE [text |-> anchor.next[i - 2 - Len(anchor.prev)],
                          in |-> i - 2 - Len(anchor.prev) <= 6]]
    IN SelectSeq(taken, LAMBDA t : t.in /\ Len(t.text) > 0)

RECURSIVE Spaced(_, _)
Spaced(texts, n) ==
    IF n = 0 THEN <<>>
    ELSE IF n = 1 THEN texts[1].text
    ELSE Spaced(texts, n - 1) \o <<" ">> \o texts[n].text

CombinedText(anchor) == Spaced(SearchedTexts(anchor), Len(SearchedTexts(anchor)))

IsNumber(t, lengths) == Len(t) \in lengths /\ AllDigits(t)

(* day.month.year with one or two digits, one or two digits, four digits *)
IsDateText(t) ==
    LET f == split(t, ".")
    IN /\ Len(t) \in 8..10
       /\ Len(f) = 3
       /\ IsNumber(f[1], {1, 2}) /\ IsNumber(f[2], {1, 2}) /\ IsNumber(f[3], {4})

(* a number, with or without a fraction after "." or ",", spaces or none, and
   one of the units *)
IsSizeText(t) ==
    \E u \in {<<"k", "B">>, <<"K", "B">>, <<"M", "B">>, <<"G", "B">>, <<"B">>,
              <<"k", "b">>, <<"m", "b">>, <<"g", "b">>} :
        /\ Len(t) > Len(u)
        /\ SubSeq(t, Len(t) - Len(u) + 1, Len(t)) = u
        /\ \E d \in 1..(Len(t) - Len(u)) :
              /\ \A j \in (d + 1)..(Len(t) - Len(u)) : t[j] = " "
              /\ \/ IsNumber(SubSeq(t, 1, d), 1..d)
                 \/ \E c \in 2..(d - 1) :
                       /\ t[c] \in {".", ","}
                       /\ IsNumber(SubSeq(t, 1, c - 1), 1..d)
                       /\ IsNumber(SubSeq(t, c + 1, d), 1..d)

Letterlike(c) == IsDigit(c) \/ c = "_" \/ \E k \in 1..Len(UpperChars) : c \in {UpperChars[k], LowerChars[k]}

(* the characters k..k+n-1 of s stand as a word of their own: no letter, digit
   or underscore touches them *)
StandsAlone(s, k, n) ==
    /\ (k = 1 \/ ~Letterlike(s[k - 1]))
    /\ (k + n - 1 = Len(s) \/ ~Letterlike(s[k + n]))

DateOccurs(s, k, n) == StandsAlone(s, k, n) /\ IsDateText(SubSeq(s, k, k + n - 1))

SizeOccurs(s, k, n) == StandsAlone(s, k, n) /\ IsSizeText(SubSeq(s, k, k + n - 1))

(* the places of s where a date or a size can stand: a start at a digit that
   no letter, digit or underscore precedes, and a length *)
Places(s) ==
    UNION {{<<k, n>> : n \in 1..(Len(s) - k + 1)} :
             k \in {j \in 1..Len(s) : IsDigit(s[j]) /\ (j = 1 \/ ~Letterlike(s[j - 1]))}}

(* the result is the occurrence that starts first in s, or none where s has no
   occurrence *)
IsFirstDate(s, result) ==
    LET occ == {kn \in Places(s) : DateOccurs(s, kn[1], kn[2])}
    IN IF occ = {} THEN ~result.found
       ELSE /\ result.found
            /\ \E kn \in occ : /\ \A other \in occ : kn[1] <= other[1]
                               /\ result.text = SubSeq(s, kn[1], kn[1] + kn[2] - 1)

IsFirstSize(s, result) ==
    LET occ == {kn \in Places(s) : SizeOccurs(s, kn[1], kn[2])}
    IN IF occ = {} THEN ~result.found
       ELSE /\ result.found
            /\ \E kn \in occ : /\ \A other \in occ : kn[1] <= other[1]
                               /\ result.text = SubSeq(s, kn[1], kn[1] + kn[2] - 1)

(* C21: the date returned for an anchor is the first date of the text made of
   its own text, its parent's text, its 12 nearest previous siblings and its
   first 6 next siblings, or none; the size returned is the first size of that
   same text, or none, whatever the date is. *)
C21_FirstDateAndSizeOfCombinedText ==
    extract_out.set =>
        \A combined \in {CombinedText(anchor_in)} :
            /\ IsFirstDate(combined, extract_out.value.date)
            /\ IsFirstSize(combined, extract_out.value.size)

(* thirteen previous siblings with the only date in the thirteenth, six next
   siblings with the only size in the sixth: no date, and the size is found *)
C21_Witness ==
    /\ extract_out.set
    /\ anchor_in.text = <<"x">>
    /\ anchor_in.parent = Empty
    /\ Len(anchor_in.prev) = 13
    /\ anchor_in.prev[13] = SIBLING_DATE
    /\ Len(anchor_in.next) = 6
    /\ anchor_in.next[6] = SIBLING_SIZE
    /\ ~extract_out.value.date.found
    /\ extract_out.value.size = [found |-> TRUE, text |-> SIBLING_SIZE]

====
